---- MODULE Spec2Model ----
(***************************************************************************)
(* The reftable stack: several stack handles (struct stack) over one       *)
(* directory, coordinating through the list file, <list_file>.lock, the    *)
(* per-table .lock files and rename/unlink.  Each filesystem call of       *)
(* stack_try_add, stack_compact_range and stack_reload is one step.        *)
(*                                                                         *)
(* A table name "%012lx-%012lx.ref" is the pair <<min, max>> it formats;   *)
(* a reader is [name, size, open]; its min/max update index are those of   *)
(* the file it opened, which every writer in the source names after them.  *)
(*                                                                         *)
(* Left out: the contents of tables (a table is its name and size),        *)
(* stats.bytes, what a compaction reads through a reader that was closed,  *)
(* and I/O errors other than open() failing with EEXIST, rename() failing  *)
(* because the lock path is gone, and the failures of stack_reload_once.   *)
(* stack_reload_once takes one step per open() of a table file; the loops  *)
(* of stack_compact_range take one step per file.  st[h].tries stops       *)
(* counting one past the deadline threshold.                               *)
(***************************************************************************)
EXTENDS Integers, Sequences, FiniteSets, TLC

\* ---------------------------------------------------------------- bounds
NumHandles == 2
MaxIndex == 3
MaxSpan == 0
MaxSkip == 0
MaxAttempts == 1
\* calls of add, compact_all, auto_compact or reload one handle makes
MaxCalls == 2
\* the table-contents specification: tables in the stack, keys, values
MaxTables == 3
NumKeys == 2
NumValues == 2

\* the compaction-policy specification: number of sizes, largest size
MaxLen == 5
MaxSize == 5

\* the reload-termination specification: tables the other processes use
ReloadTables == 2

\* the priority-queue specification: keys, and sub-tables an entry may come from
PqKeys == 3
PqTables == 3

\* ------------------------------------------------------ program constants
IO_ERROR == -2
FORMAT_ERROR == -3
NOT_EXIST_ERROR == -4
LOCK_ERROR == -5
API_ERROR == -6
\* the per-table overhead stack_table_sizes_for_compaction deducts
Overhead == 91
\* suggest_compaction_segment: min_seg = { .log = 64 }
InitLog == 64
\* stack_reload: "tries > 3"
DeadlineTries == 3

Handles == 1..NumHandles
Indices == 1..MaxIndex
\* sizes of the tables the writer produces (header + footer = 92 bytes, so
\* an empty table has size 92 and size - 91 is never 0)
TableSizes == {92, 95}
\* what a write callback may pass to writer_set_limits when the stack's next
\* update index is next: a range that starts at most MaxSkip beyond it
Limits(next) ==
  {lim \in Indices \X Indices :
     lim[1] <= lim[2] /\ lim[2] - lim[1] <= MaxSpan /\ lim[1] <= next + MaxSkip}

\* an absent file; "ino" is the set (empty or one handle) of handles whose
\* open lock descriptor refers to the file's inode, "owner" the handle that
\* created the file
NoFile == [exists |-> FALSE, owner |-> 0, ino |-> {}, content |-> <<>>]
NullReader == [name |-> <<>>, size |-> 0, open |-> FALSE]
NoWriter == [min |-> 0, max |-> 0, size |-> 0]
NoFiles == [n \in {} |-> 0]
\* a stack of no tables, nothing compacted yet; "before", "first", "last",
\* "compacted" remember the last stack_write_compact for the properties
NoContents == [tabs |-> <<>>, before |-> <<>>, first |-> 0, last |-> 0, compacted |-> FALSE]

\* a handle with no reader loaded; "before", "names", "files", "err" remember
\* the last stack_reload_once for the properties
NoReaders == [merged |-> <<>>, before |-> <<>>, names |-> <<>>, files |-> NoFiles, err |-> 0]

\* no call of the compaction policy yet; "call" names the function called
\* last, "sizes" and "x" its argument, "seg" and "l" its result
NoPolicy == [call |-> "", sizes |-> <<>>, seg |-> [start |-> 0, end |-> 0, log |-> 0, bytes |-> 0],
             x |-> 1, l |-> 0, compact |-> FALSE, first |-> 0, last |-> 0, names |-> <<>>]

\* an empty queue; "call" names the function called last, "e" the entry it
\* took or returned
NoPq == [heap |-> <<>>, call |-> "", e |-> [rec |-> [key |-> 0, value |-> <<>>], index |-> 0]]

VARIABLES
  list,        \* the names in the list file (absent file = no names)
  listIno,     \* the handles (none or one) whose open lock fd refers to the list file's inode
  lockFile,    \* <list_file>.lock: NoFile, or [exists, owner, ino, content]
  tables,      \* the published .ref files: name -> size
  tableLocks,  \* the <name>.lock files: name -> the handle that created it
  temps,       \* handles whose current mkstemp file exists
  leaked,      \* handles that left an earlier mkstemp file behind
  st,          \* per handle: struct stack and the locals of the running call
  contents,    \* the records of one handle's tables (SpecContents only)
  readers,     \* one handle's readers, open or closed (SpecReaders only)
  policy,      \* the last call of the compaction policy (SpecPolicy only)
  pq           \* one merged_iter_pqueue and its last call (SpecPq only)

vars == <<list, listIno, lockFile, tables, tableLocks, temps, leaked, st, contents, readers,
          policy, pq>>
disk == <<list, listIno, lockFile, tables, tableLocks, temps, leaked>>

\* ---------------------------------------------------------------- helpers
Min2(a, b) == IF a < b THEN a ELSE b

\* an exit path that leaves the temp file behind
unlink_temp_skipped(files, h) == files

\* try_add's temp file at its exit label: unlinked when temp_tab_name.len > 0
unlink_temp(files, h) == files \ {h}

format_name(min, max) == <<min, max>>

reader_min_update_index(rd) == rd.name[1]
reader_max_update_index(rd) == rd.name[2]

ReaderNames(merged) == [i \in 1..Len(merged) |-> merged[i].name]

SubSeqFrom(s, i) == IF i > Len(s) THEN <<>> ELSE SubSeq(s, i, Len(s))

\* read_lines: the parsed names of the list file; ENOENT gives no names
read_lines == list

\* stack_uptodate: 0 = up to date, 1 = changed
stack_uptodate(merged) ==
  IF \E i \in 1..Len(merged) :
        \/ i > Len(read_lines)
        \/ merged[i].name # read_lines[i]
  THEN 1
  ELSE IF Len(read_lines) > Len(merged) THEN 1 ELSE 0

\* a next update index that repeats the topmost reader's max_update_index
stack_next_update_index_repeats(merged) ==
  IF Len(merged) > 0
  THEN reader_max_update_index(merged[Len(merged)])
  ELSE 1

stack_next_update_index(merged) ==
  IF Len(merged) > 0
  THEN reader_max_update_index(merged[Len(merged)]) + 1
  ELSE 1

\* stack_reload_once, the loop over names, followed until it has made
\* "opens" calls of open() and stands before the next one, or is left: take
\* a current reader of the same name, else open the file; a missing file is
\* NOT_EXIST_ERROR, and open_err is what block_source_from_file and
\* new_reader make of a file that is there (0, or their error).  tabs is
\* new_tables, cur the cur array and left the names not yet loaded when the
\* loop stops.
RECURSIVE reload_once_loop(_, _, _, _, _, _)
reload_once_loop(names, cur, new_tables, files, opens, open_err) ==
  IF names = <<>>
  THEN [err |-> 0, tabs |-> new_tables, cur |-> cur, left |-> <<>>]
  ELSE LET name == Head(names)
           hits == {j \in 1..Len(cur) : cur[j] # NullReader /\ cur[j].name = name}
       IN  IF hits # {}
           THEN LET j == CHOOSE k \in hits : \A m \in hits : k <= m
                IN  reload_once_loop(Tail(names), [cur EXCEPT ![j] = NullReader],
                                     Append(new_tables, cur[j]), files, opens, open_err)
           ELSE IF opens = 0
                THEN [err |-> 0, tabs |-> new_tables, cur |-> cur, left |-> names]
                ELSE IF name \notin DOMAIN files
                     THEN [err |-> NOT_EXIST_ERROR, tabs |-> new_tables, cur |-> cur,
                           left |-> names]
                     ELSE IF open_err # 0
                          THEN [err |-> open_err, tabs |-> new_tables, cur |-> cur,
                                left |-> names]
                          ELSE reload_once_loop(Tail(names), cur,
                                  Append(new_tables, [name |-> name, size |-> files[name],
                                                      open |-> TRUE]),
                                  files, opens - 1, open_err)

\* the whole of stack_reload_once's loop against one set of table files,
\* every open() of a file that is there succeeding
stack_reload_once(merged, names, files) ==
  reload_once_loop(names, merged, <<>>, files, Len(names), 0)

\* an open() that reports every table file as missing
stack_reload_once_open_fails(cur, names, new_tables, files, open_err) ==
  [err |-> NOT_EXIST_ERROR, tabs |-> new_tables, cur |-> cur, left |-> names]

\* stack_reload_once from where it stands up to its next open(), that call
\* included, and on to the open() after it or the end of the loop
stack_reload_once_open(cur, names, new_tables, files, open_err) ==
  reload_once_loop(names, cur, new_tables, files, 1, open_err)

\* stack_reload_once after the loop: st->merged = new_merged, built from
\* new_tables
merged_replaced(merged, new_tables) == new_tables

\* stack_reload_once's exit label after a failure: reader_close on every
\* entry of new_tables.  The entries taken over from st->merged are the ones
\* blanked in cur; st->merged still points at them.
close_new_tables(merged, cur) ==
  [i \in 1..Len(merged) |->
     IF cur[i] = NullReader THEN [merged[i] EXCEPT !.open = FALSE] ELSE merged[i]]

\* ------------------------------------------------------ compaction policy
RECURSIVE fastlog2_loop(_, _)
fastlog2_loop(sz, l) == IF sz = 0 THEN l ELSE fastlog2_loop(sz \div 2, l + 1)

fastlog2(sz) == fastlog2_loop(sz, 0) - 1

EmptySegment == [start |-> 0, end |-> 0, log |-> 0, bytes |-> 0]

segment_size(s) == s.end - s.start

\* sizes is 1-based here; start and end keep the source's 0-based values
RECURSIVE sizes_to_segments_loop(_, _, _, _)
sizes_to_segments_loop(sizes, i, cur, segs) ==
  IF i >= Len(sizes)
  THEN Append(segs, cur)
  ELSE LET log   == fastlog2(sizes[i + 1])
           flush == cur.log # log /\ cur.bytes > 0
           fresh == IF flush THEN [EmptySegment EXCEPT !.start = i] ELSE cur
       IN  sizes_to_segments_loop(sizes, i + 1,
              [fresh EXCEPT !.log = log, !.end = i + 1, !.bytes = @ + sizes[i + 1]],
              IF flush THEN Append(segs, cur) ELSE segs)

sizes_to_segments(sizes) == sizes_to_segments_loop(sizes, 0, EmptySegment, <<>>)

RECURSIVE min_segment_loop(_, _, _)
min_segment_loop(segs, i, min_seg) ==
  IF i > Len(segs)
  THEN min_seg
  ELSE IF segment_size(segs[i]) = 1
       THEN min_segment_loop(segs, i + 1, min_seg)
       ELSE min_segment_loop(segs, i + 1,
               IF segs[i].log < min_seg.log THEN segs[i] ELSE min_seg)

\* a policy that never extends the chosen segment
extend_segment_loop_none(sizes, min_seg) == min_seg

RECURSIVE extend_segment_loop(_, _)
extend_segment_loop(sizes, min_seg) ==
  IF min_seg.start > 0
  THEN LET prev == min_seg.start - 1
       IN  IF fastlog2(min_seg.bytes) < fastlog2(sizes[prev + 1])
           THEN min_seg
           ELSE extend_segment_loop(sizes,
                   [min_seg EXCEPT !.start = prev, !.bytes = @ + sizes[prev + 1]])
  ELSE min_seg

suggest_compaction_segment(sizes) ==
  extend_segment_loop(sizes,
     min_segment_loop(sizes_to_segments(sizes), 1, [EmptySegment EXCEPT !.log = InitLog]))

stack_table_sizes_for_compaction(merged) ==
  [i \in 1..Len(merged) |-> merged[i].size - Overhead]

\* ------------------------------------------------------------------ state
\* Fields of st[h].  struct stack: merged (the readers of st->merged), stats.
\* Locals of the running call: pc, op (the public call), cont (where
\* stack_reload returns to), names, tries, cur and new_tables (of the running
\* stack_reload_once), err, wr (the closed writer), next,
\* first, last, subLocks (subtable_locks), p (how far the running loop over
\* delete_on_success or subtable_locks has come), have_lock, ret (the last
\* return), calls (the public calls begun on the handle).
\* History of the running call, read by the properties only: stale,
\* committed, published, quiet, lostTo, appended, added_name, crashed.
InitStack ==
  [pc |-> "idle", op |-> "", cont |-> "", merged |-> <<>>,
   stats |-> [attempts |-> 0, failures |-> 0],
   names |-> <<>>, tries |-> 0, cur |-> <<>>, new_tables |-> <<>>, err |-> 0,
   wr |-> NoWriter, next |-> 0,
   first |-> 0, last |-> 0, subLocks |-> <<>>, p |-> 0, have_lock |-> FALSE, ret |-> 0,
   calls |-> 0,
   stale |-> FALSE, committed |-> FALSE, published |-> FALSE, quiet |-> TRUE,
   lostTo |-> {}, appended |-> <<>>, added_name |-> <<>>, crashed |-> FALSE]

Init ==
  /\ list = <<>>
  /\ listIno = {}
  /\ lockFile = NoFile
  /\ tables = NoFiles
  /\ tableLocks = NoFiles
  /\ temps = {}
  /\ leaked = {}
  /\ st = [h \in Handles |-> InitStack]
  /\ contents = NoContents
  /\ readers = NoReaders
  /\ policy = NoPolicy
  /\ pq = NoPq

\* the locals of a call that has returned
ClearLocals(s) ==
  [s EXCEPT !.cont = "", !.names = <<>>, !.tries = 0, !.cur = <<>>, !.new_tables = <<>>,
            !.err = 0, !.wr = NoWriter, !.next = 0, !.first = 0, !.last = 0, !.subLocks = <<>>, !.p = 0,
            !.have_lock = FALSE]

\* the public call returns e to its caller
Return(s, e) == [ClearLocals(s) EXCEPT !.pc = "returned", !.ret = e, !.appended = <<>>]

ClearHistory(s) ==
  [s EXCEPT !.op = "", !.ret = 0, !.stale = FALSE, !.committed = FALSE,
            !.published = FALSE, !.quiet = TRUE, !.lostTo = {}, !.appended = <<>>,
            !.added_name = <<>>, !.crashed = FALSE]

\* the handle is gone: its process ended
Dead(s) == [ClearHistory(InitStack) EXCEPT !.pc = "dead"]

\* a public call begins: the history of the previous call is forgotten
Begin(s, op) == [ClearHistory(s) EXCEPT !.op = op, !.calls = @ + 1]

\* what another handle's step does to the history of handle g's record:
\* listChanged = the list file's content changed; began = h began a call;
\* added = the name an add of h appended to the list file, or <<>>
Observe(g, h, listChanged, began, added) ==
  [st[g] EXCEPT !.quiet = IF st[g].pc \in {"idle", "dead"} THEN @ ELSE @ /\ ~listChanged,
                !.lostTo = IF began THEN @ \ {h} ELSE @,
                !.appended = IF added # <<>> /\ st[g].pc \in {"cr_write", "cr_relock"}
                             THEN Append(@, added) ELSE @]

\* handle h's record becomes s; the others keep theirs
Step(h, s) == st' = [st EXCEPT ![h] = s] /\ UNCHANGED <<contents, readers, policy, pq>>

StepObserved(h, s, listChanged, began, added) ==
  /\ st' = [g \in Handles |-> IF g = h THEN s ELSE Observe(g, h, listChanged, began, added)]
  /\ UNCHANGED <<contents, readers, policy, pq>>

\* ------------------------------------------------------------ file helpers
AddFile(files, name, v) ==
  [n \in DOMAIN files \cup {name} |-> IF n = name THEN v ELSE files[n]]

RemoveFiles(files, names) == [n \in DOMAIN files \ names |-> files[n]]

SeqRange(s) == {s[i] : i \in 1..Len(s)}

\* close(lock_fd): no inode is reachable through h's descriptor any more
CloseIno(f, h) == [f EXCEPT !.ino = @ \ {h}]

\* write(lock_fd, data): the data lands in the inode the descriptor refers
\* to, wherever its name is now
WriteIno(f, h, data) == IF f.exists /\ h \in f.ino THEN [f EXCEPT !.content = data] ELSE f

\* open(<list_file>.lock, O_EXCL|O_CREAT|O_WRONLY)
NewLock(h) == [exists |-> TRUE, owner |-> h, ino |-> {h}, content |-> <<>>]

\* ------------------------------------------------------------ stack_reload
\* stack_reload returns e to the code that called it
AfterReload(s, e) ==
  CASE s.cont \in {"ta_exit", "cr_exit"} -> [s EXCEPT !.pc = s.cont, !.err = e, !.cont = "",
                                                      !.names = <<>>, !.tries = 0]
    [] OTHER -> Return(s, e)

CallReload(s, cont) == [s EXCEPT !.pc = "rl_read", !.cont = cont, !.tries = 0, !.names = <<>>]

\* a loop head without the deadline test
ReloadReadNoDeadline(h) ==
  /\ st[h].pc = "rl_read"
  /\ Step(h, [st[h] EXCEPT !.pc = "rl_once", !.names = read_lines, !.quiet = TRUE,
                           !.cur = st[h].merged, !.new_tables = <<>>,
                           !.tries = Min2(@ + 1, DeadlineTries + 1)])
  /\ UNCHANGED disk

\* one pass of the loop head: tries++, the deadline test, read_lines, and
\* the entry of stack_reload_once (cur is a copy of the loaded readers)
ReloadRead(h) ==
  /\ st[h].pc = "rl_read"
  /\ LET s == st[h]
         tries == Min2(s.tries + 1, DeadlineTries + 1)
     IN  \E deadline_passed \in BOOLEAN :
           IF tries > DeadlineTries /\ deadline_passed
           THEN Step(h, AfterReload(s, 0))
           ELSE Step(h, [s EXCEPT !.pc = "rl_once", !.tries = tries, !.names = read_lines,
                                  !.cur = s.merged, !.new_tables = <<>>, !.quiet = TRUE])
  /\ UNCHANGED disk

\* the names stack_reload_once has not loaded yet
names_left(s) == SubSeqFrom(s.names, Len(s.new_tables) + 1)

\* what block_source_from_file and new_reader return for a file that is
\* there, and what new_merged_table returns
OpenResults == {0, IO_ERROR, FORMAT_ERROR}
MergedResults == {0, FORMAT_ERROR}

\* stack_reload_once up to and including one open() of a table file: the
\* loop goes on to the next open(), or ends and new_merged_table builds the
\* table that replaces st->merged, or a call fails and the exit label closes
\* new_tables
ReloadOnce(h) ==
  /\ st[h].pc = "rl_once"
  /\ \E open_err \in OpenResults, merged_err \in MergedResults :
       LET s == st[h]
           r == stack_reload_once_open(s.cur, names_left(s), s.new_tables, tables,
                                       open_err)
           left == [s EXCEPT !.cur = <<>>, !.new_tables = <<>>]
           failed == [left EXCEPT !.merged = close_new_tables(s.merged, r.cur)]
       IN  IF r.err = 0
           THEN IF r.left # <<>>
                THEN Step(h, [s EXCEPT !.cur = r.cur, !.new_tables = r.tabs])
                ELSE IF merged_err # 0
                     THEN Step(h, AfterReload(failed, merged_err))
                     ELSE Step(h, AfterReload([left EXCEPT !.merged =
                                                  merged_replaced(s.merged, r.tabs)], 0))
           ELSE IF r.err # NOT_EXIST_ERROR
                THEN Step(h, AfterReload(failed, r.err))
                ELSE Step(h, [failed EXCEPT !.pc = "rl_reread"])
  /\ UNCHANGED disk

ReloadReread(h) ==
  /\ st[h].pc = "rl_reread"
  /\ LET s == st[h]
         names_after == read_lines
     IN  IF names_after = s.names
         THEN Step(h, AfterReload([s EXCEPT !.quiet = TRUE], -1))
         ELSE Step(h, [s EXCEPT !.pc = "rl_read", !.quiet = TRUE])
  /\ UNCHANGED disk

StackReload(h) ==
  /\ st[h].pc = "idle"
  /\ st[h].calls < MaxCalls
  /\ StepObserved(h, CallReload(Begin(st[h], "reload"), "ret"), FALSE, TRUE, <<>>)
  /\ UNCHANGED disk

\* ----------------------------------------------------------- compaction entry
\* stack_compact_range, up to the first open()
EnterCompactRange(s, first, last) ==
  IF first >= last
  THEN Return(s, 0)
  ELSE [s EXCEPT !.pc = "cr_lock", !.first = first, !.last = last, !.err = 0,
                 !.stats.attempts = @ + 1]

\* stack_compact_range returns e: through stack_compact_range_stats when
\* stack_auto_compact made the call, directly for stack_compact_all
CompactReturn(s, e) ==
  IF s.op \in {"add", "auto_compact"} /\ e > 0
  THEN Return([s EXCEPT !.stats.failures = @ + 1], e)
  ELSE Return(s, e)

\* a call that leaves the first table of the segment out
stack_auto_compact_skips_first(s) ==
  LET seg == suggest_compaction_segment(stack_table_sizes_for_compaction(s.merged))
  IN  IF segment_size(seg) > 0
      THEN EnterCompactRange(s, seg.start + 1, seg.end - 1)
      ELSE Return(s, 0)

stack_auto_compact(s) ==
  LET seg == suggest_compaction_segment(stack_table_sizes_for_compaction(s.merged))
  IN  IF segment_size(seg) > 0
      THEN EnterCompactRange(s, seg.start, seg.end - 1)
      ELSE Return(s, 0)

\* ------------------------------------------------------------ stack_try_add
\* the test stack_try_add applies to the result of stack_uptodate
uptodate_is_lock_error(err) == err > 1

\* an add that accepts every update-index range the callback sets
limits_unchecked(wr, next_update_index) == FALSE

\* the test on the limits the write callback left in the writer
limits_are_api_error(wr, next_update_index) == wr.min < next_update_index

\* the list stack_try_add writes into the lock file
add_table_list(merged, next_name) == Append(ReaderNames(merged), next_name)

\* stack_add .. open(lock_name, O_EXCL|O_CREAT|O_WRONLY)
TryAddLock(h) ==
  /\ st[h].pc = "idle"
  /\ st[h].calls < MaxCalls
  /\ st[h].stats.attempts < MaxAttempts
  /\ LET s == Begin(st[h], "add")
     IN  IF lockFile.exists
         THEN /\ StepObserved(h, [s EXCEPT !.pc = "ta_exit", !.err = LOCK_ERROR,
                     !.lostTo = {g \in Handles \ {h} : st[g].have_lock /\ st[g].op = "add"}],
                     FALSE, TRUE, <<>>)
              /\ UNCHANGED <<lockFile, listIno>>
         ELSE /\ StepObserved(h, [s EXCEPT !.pc = "ta_uptodate", !.have_lock = TRUE],
                     FALSE, TRUE, <<>>)
              /\ lockFile' = NewLock(h)
              /\ listIno' = listIno \ {h}
  /\ UNCHANGED <<list, tables, tableLocks, temps, leaked>>

\* stack_uptodate reads the list file; stack_next_update_index
TryAddUptodate(h) ==
  /\ st[h].pc = "ta_uptodate"
  /\ LET s   == st[h]
         err == stack_uptodate(s.merged)
     IN  IF uptodate_is_lock_error(err)
         THEN Step(h, [s EXCEPT !.pc = "ta_exit", !.err = LOCK_ERROR, !.stale = err # 0])
         ELSE Step(h, [s EXCEPT !.pc = "ta_mkstemp", !.stale = err # 0,
                                !.next = stack_next_update_index(s.merged)])
  /\ UNCHANGED disk

\* mkstemp, the write callback, writer_close, close(tab_fd).  The callback
\* returns an error of its own (any negative value, LOCK_ERROR among them),
\* or sets limits and returns 0.
TryAddWrite(h) ==
  /\ st[h].pc = "ta_mkstemp"
  /\ LET s == st[h]
     IN  \/ \E write_err \in {-1, LOCK_ERROR} :
              Step(h, [s EXCEPT !.pc = "ta_exit_temp", !.err = write_err])
         \/ \E lim \in Limits(s.next), size \in TableSizes :
              Step(h, [s EXCEPT !.pc = "ta_rename",
                                !.wr = [min |-> lim[1], max |-> lim[2], size |-> size]])
  /\ temps' = temps \cup {h}
  /\ UNCHANGED <<list, listIno, lockFile, tables, tableLocks, leaked>>

\* the limits test and rename(temp_tab_name, tab_name)
TryAddRename(h) ==
  /\ st[h].pc = "ta_rename"
  /\ LET s == st[h]
         next_name == format_name(s.wr.min, s.wr.max)
     IN  IF limits_are_api_error(s.wr, s.next)
         THEN /\ Step(h, [s EXCEPT !.pc = "ta_exit_temp", !.err = API_ERROR])
              /\ UNCHANGED <<tables, temps>>
         ELSE /\ tables' = AddFile(tables, next_name, s.wr.size)
              /\ temps' = temps \ {h}
              /\ Step(h, [s EXCEPT !.pc = "ta_listwrite", !.published = TRUE])
  /\ UNCHANGED <<list, listIno, lockFile, tableLocks, leaked>>

\* write(lock_fd, table_list), close(lock_fd)
TryAddWriteList(h) ==
  /\ st[h].pc = "ta_listwrite"
  /\ LET s == st[h]
         table_list == add_table_list(s.merged, format_name(s.wr.min, s.wr.max))
         newList == IF h \in listIno THEN table_list ELSE list
     IN  /\ lockFile' = CloseIno(WriteIno(lockFile, h, table_list), h)
         /\ list' = newList
         /\ listIno' = listIno \ {h}
         /\ StepObserved(h, [s EXCEPT !.pc = "ta_commit"], newList # list, FALSE, <<>>)
  /\ UNCHANGED <<tables, tableLocks, temps, leaked>>

\* rename(lock_name, st->list_file), then the call of stack_reload
TryAddCommit(h) ==
  /\ st[h].pc = "ta_commit"
  /\ LET s == st[h]
         tab_name == format_name(s.wr.min, s.wr.max)
     IN  IF ~lockFile.exists
         THEN /\ Step(h, [s EXCEPT !.pc = "ta_unlink", !.err = IO_ERROR])
              /\ UNCHANGED <<list, listIno, lockFile>>
         ELSE /\ list' = lockFile.content
              /\ listIno' = lockFile.ino
              /\ lockFile' = NoFile
              /\ StepObserved(h, CallReload([s EXCEPT !.committed = TRUE, !.have_lock = FALSE,
                                                      !.added_name =
                                                        IF lockFile.content = Append(list, tab_name)
                                                        THEN tab_name ELSE <<>>],
                                            "ta_exit"),
                              lockFile.content # list, FALSE,
                              IF lockFile.content = Append(list, tab_name)
                              THEN tab_name ELSE <<>>)
  /\ UNCHANGED <<tables, tableLocks, temps, leaked>>

\* unlink(tab_name) after the rename of the lock file failed
TryAddUnlinkTable(h) ==
  /\ st[h].pc = "ta_unlink"
  /\ tables' = RemoveFiles(tables, {format_name(st[h].wr.min, st[h].wr.max)})
  /\ Step(h, [st[h] EXCEPT !.pc = "ta_exit"])
  /\ UNCHANGED <<list, listIno, lockFile, tableLocks, temps, leaked>>

\* the exit label of stack_try_add with temp_tab_name still set:
\* unlink(temp_tab_name)
TryAddUnlinkTemp(h) ==
  /\ st[h].pc = "ta_exit_temp"
  /\ temps' = unlink_temp(temps, h)
  /\ Step(h, [st[h] EXCEPT !.pc = "ta_exit"])
  /\ UNCHANGED <<list, listIno, lockFile, tables, tableLocks, leaked>>

\* the exit label of stack_try_add from unlink(lock_name) on, then the rest
\* of stack_add
TryAddExit(h) ==
  /\ st[h].pc = "ta_exit"
  /\ LET s == [st[h] EXCEPT !.have_lock = FALSE, !.stale = FALSE, !.wr = NoWriter]
     IN  /\ lockFile' = NoFile
         /\ listIno' = listIno \ {h}
         /\ IF s.err < 0
            THEN IF s.err = LOCK_ERROR
                 THEN Step(h, CallReload(s, "add_ret"))
                 ELSE Step(h, Return(s, s.err))
            ELSE Step(h, stack_auto_compact(s))
  /\ UNCHANGED <<list, tables, tableLocks, temps, leaked>>

\* ------------------------------------------------------ stack_compact_range
\* the error the per-table lock loop is left with when open() fails with EEXIST
sublock_exists_error == IO_ERROR

\* the list stack_compact_range writes into the lock file
compact_ref_list(merged, first, last, new_table_name) ==
  SubSeq(ReaderNames(merged), 1, first) \o <<new_table_name>>
    \o SubSeqFrom(ReaderNames(merged), last + 2)

\* the name of the compacted table
compact_table_name(merged, first, last) ==
  format_name(reader_min_update_index(merged[first + 1]),
              reader_max_update_index(merged[last + 1]))

StackCompactAll(h) ==
  /\ st[h].pc = "idle"
  /\ st[h].calls < MaxCalls
  /\ st[h].stats.attempts < MaxAttempts
  /\ StepObserved(h, EnterCompactRange(Begin(st[h], "compact_all"), 0, Len(st[h].merged) - 1),
                  FALSE, TRUE, <<>>)
  /\ UNCHANGED disk

StackAutoCompact(h) ==
  /\ st[h].pc = "idle"
  /\ st[h].calls < MaxCalls
  /\ st[h].stats.attempts < MaxAttempts
  /\ StepObserved(h, stack_auto_compact(Begin(st[h], "auto_compact")), FALSE, TRUE, <<>>)
  /\ UNCHANGED disk

\* open(lock_file_name, O_EXCL|O_CREAT|O_WRONLY)
CompactLock(h) ==
  /\ st[h].pc = "cr_lock"
  /\ IF lockFile.exists
     THEN /\ Step(h, [st[h] EXCEPT !.pc = "cr_early", !.err = 1])
          /\ UNCHANGED <<lockFile, listIno>>
     ELSE /\ Step(h, [st[h] EXCEPT !.pc = "cr_uptodate", !.have_lock = TRUE])
          /\ lockFile' = NewLock(h)
          /\ listIno' = listIno \ {h}
  /\ UNCHANGED <<list, tables, tableLocks, temps, leaked>>

\* stack_uptodate under the list lock
CompactUptodate(h) ==
  /\ st[h].pc = "cr_uptodate"
  /\ LET s == st[h]
         err == stack_uptodate(s.merged)
     IN  IF err # 0
         THEN Step(h, [s EXCEPT !.pc = "cr_early", !.err = err])
         ELSE Step(h, [s EXCEPT !.pc = "cr_sublock"])
  /\ UNCHANGED disk

\* one pass of the per-table lock loop, i = first..last:
\* open(<name>.lock, O_EXCL|O_CREAT|O_WRONLY); the path is recorded in
\* subtable_locks before err is tested
CompactSubLock(h) ==
  /\ st[h].pc = "cr_sublock"
  /\ LET s == st[h]
         i == s.first + Len(s.subLocks)
         name == s.merged[i + 1].name
     IN  IF name \in DOMAIN tableLocks
         THEN /\ Step(h, [s EXCEPT !.pc = "cr_exit", !.err = sublock_exists_error,
                                   !.subLocks = Append(@, name)])
              /\ UNCHANGED tableLocks
         ELSE /\ tableLocks' = AddFile(tableLocks, name, h)
              /\ Step(h, [s EXCEPT !.pc = IF i = s.last THEN "cr_unlock" ELSE "cr_sublock",
                                   !.subLocks = Append(@, name)])
  /\ UNCHANGED <<list, listIno, lockFile, tables, temps, leaked>>

\* a compaction that keeps the list lock while it writes
CompactKeepsListLock(h) ==
  /\ st[h].pc = "cr_unlock"
  /\ Step(h, [st[h] EXCEPT !.pc = "cr_write"])
  /\ UNCHANGED disk

\* unlink(lock_file_name): the list lock is released for the long write
CompactUnlock(h) ==
  /\ st[h].pc = "cr_unlock"
  /\ IF ~lockFile.exists
     THEN /\ Step(h, [st[h] EXCEPT !.pc = "cr_exit", !.err = -1])
          /\ UNCHANGED lockFile
     ELSE /\ Step(h, [st[h] EXCEPT !.pc = "cr_write", !.have_lock = FALSE])
          /\ lockFile' = NoFile
  /\ UNCHANGED <<list, listIno, tables, tableLocks, temps, leaked>>

\* stack_compact_locked: mkstemp, stack_write_compact, writer_close, close
CompactWrite(h) ==
  /\ st[h].pc = "cr_write"
  /\ LET s == st[h]
     IN  \E size \in TableSizes :
           Step(h, [s EXCEPT !.pc = "cr_relock",
                             !.wr = [min |-> reader_min_update_index(s.merged[s.first + 1]),
                                     max |-> reader_max_update_index(s.merged[s.last + 1]),
                                     size |-> size]])
  /\ temps' = temps \cup {h}
  /\ UNCHANGED <<list, listIno, lockFile, tables, tableLocks, leaked>>

\* the second open(lock_file_name, O_EXCL|O_CREAT|O_WRONLY)
CompactRelock(h) ==
  /\ st[h].pc = "cr_relock"
  /\ IF lockFile.exists
     THEN /\ Step(h, [st[h] EXCEPT !.pc = "cr_exit", !.err = 1])
          /\ UNCHANGED <<lockFile, listIno>>
     ELSE /\ Step(h, [st[h] EXCEPT !.pc = "cr_rename", !.have_lock = TRUE])
          /\ lockFile' = NewLock(h)
          /\ listIno' = listIno \ {h}
  /\ UNCHANGED <<list, tables, tableLocks, temps, leaked>>

\* rename(temp_tab_name, new_table_path)
CompactRename(h) ==
  /\ st[h].pc = "cr_rename"
  /\ LET s == st[h]
         new_table_name == compact_table_name(s.merged, s.first, s.last)
     IN  /\ tables' = AddFile(tables, new_table_name, s.wr.size)
         /\ temps' = temps \ {h}
         /\ Step(h, [s EXCEPT !.pc = "cr_listwrite", !.published = TRUE])
  /\ UNCHANGED <<list, listIno, lockFile, tableLocks, leaked>>

\* write(lock_file_fd, ref_list_contents), close(lock_file_fd)
CompactWriteList(h) ==
  /\ st[h].pc = "cr_listwrite"
  /\ LET s == st[h]
         new_table_name == compact_table_name(s.merged, s.first, s.last)
         ref_list_contents == compact_ref_list(s.merged, s.first, s.last, new_table_name)
         newList == IF h \in listIno THEN ref_list_contents ELSE list
     IN  /\ lockFile' = CloseIno(WriteIno(lockFile, h, ref_list_contents), h)
         /\ list' = newList
         /\ listIno' = listIno \ {h}
         /\ StepObserved(h, [s EXCEPT !.pc = "cr_commit"], newList # list, FALSE, <<>>)
  /\ UNCHANGED <<tables, tableLocks, temps, leaked>>

\* rename(lock_file_name, st->list_file)
CompactCommit(h) ==
  /\ st[h].pc = "cr_commit"
  /\ LET s == st[h]
         new_table_name == compact_table_name(s.merged, s.first, s.last)
     IN  IF ~lockFile.exists
         THEN /\ Step(h, [s EXCEPT !.pc = "cr_unlink", !.err = -1])
              /\ UNCHANGED <<list, listIno, lockFile>>
         ELSE /\ list' = lockFile.content
              /\ listIno' = lockFile.ino
              /\ lockFile' = NoFile
              /\ StepObserved(h, [s EXCEPT !.pc = "cr_delete", !.committed = TRUE,
                                           !.have_lock = FALSE, !.appended = <<>>],
                              lockFile.content # list, FALSE, <<>>)
  /\ UNCHANGED <<tables, tableLocks, temps, leaked>>

\* unlink(new_table_path) after the rename of the lock file failed
CompactUnlinkTable(h) ==
  /\ st[h].pc = "cr_unlink"
  /\ tables' = RemoveFiles(tables, {compact_table_name(st[h].merged, st[h].first,
                                                        st[h].last)})
  /\ Step(h, [st[h] EXCEPT !.pc = "cr_exit"])
  /\ UNCHANGED <<list, listIno, lockFile, tableLocks, temps, leaked>>

\* one pass of the loop over delete_on_success: unlink(*p); the call of
\* stack_reload follows the last one
CompactDelete(h) ==
  /\ st[h].pc = "cr_delete"
  /\ LET s == st[h]
         i == s.first + s.p
     IN  /\ tables' = RemoveFiles(tables, {s.merged[i + 1].name})
         /\ IF i = s.last
            THEN Step(h, CallReload([s EXCEPT !.p = 0], "cr_exit"))
            ELSE Step(h, [s EXCEPT !.p = @ + 1])
  /\ UNCHANGED <<list, listIno, lockFile, tableLocks, temps, leaked>>

\* the exit label, reached with subtable_locks initialised: one pass of the
\* loop over subtable_locks, unlink(*p)
CompactExitUnlink(h) ==
  /\ st[h].pc = "cr_exit"
  /\ st[h].p < Len(st[h].subLocks)
  /\ tableLocks' = RemoveFiles(tableLocks, {st[h].subLocks[st[h].p + 1]})
  /\ Step(h, [st[h] EXCEPT !.p = @ + 1])
  /\ UNCHANGED <<list, listIno, lockFile, tables, temps, leaked>>

\* the rest of the exit label: close(lock_file_fd), unlink(lock_file_name)
\* if have_lock, and the return
CompactExit(h) ==
  /\ st[h].pc = "cr_exit"
  /\ st[h].p = Len(st[h].subLocks)
  /\ LET s == st[h]
     IN  /\ lockFile' = IF s.have_lock THEN NoFile ELSE CloseIno(lockFile, h)
         /\ listIno' = listIno \ {h}
         /\ leaked' = IF h \in temps THEN leaked \cup {h} ELSE leaked
         /\ temps' = temps \ {h}
         /\ Step(h, CompactReturn(s, s.err))
  /\ UNCHANGED <<list, tables, tableLocks>>

\* The exit label reached by a goto that jumps over the initialisation of
\* delete_on_success and subtable_locks: the loops read indeterminate
\* pointers.  Either they find nothing to unlink and the function returns
\* err, or the process dies in them (before the list lock is unlinked).
CompactEarlyExit(h) ==
  /\ st[h].pc = "cr_early"
  /\ LET s == st[h]
     IN  \E survives \in BOOLEAN :
           IF survives
           THEN /\ lockFile' = IF s.have_lock THEN NoFile ELSE CloseIno(lockFile, h)
                /\ Step(h, CompactReturn(s, s.err))
           ELSE /\ lockFile' = CloseIno(lockFile, h)
                /\ Step(h, Dead(s))
  /\ listIno' = listIno \ {h}
  /\ UNCHANGED <<list, tables, tableLocks, temps, leaked>>

\* ------------------------------------------------------ process termination
\* the process using handle h ends at any step of a call: its descriptors
\* are closed, its files stay
Crash(h) ==
  /\ st[h].pc \notin {"idle", "returned", "dead"}
  /\ Step(h, [Dead(st[h]) EXCEPT !.crashed = TRUE])
  /\ lockFile' = CloseIno(lockFile, h)
  /\ listIno' = listIno \ {h}
  /\ leaked' = IF h \in temps THEN leaked \cup {h} ELSE leaked
  /\ temps' = temps \ {h}
  /\ UNCHANGED <<list, tables, tableLocks>>

\* stack_destroy between calls: merged_table_close closes every reader, the
\* merged table and the handle are freed; no file is touched
StackDestroy(h) ==
  /\ st[h].pc = "idle"
  /\ Step(h, Dead(st[h]))
  /\ UNCHANGED disk

\* the caller goes on after the call
Resume(h) ==
  /\ st[h].pc = "returned"
  /\ Step(h, [ClearHistory(st[h]) EXCEPT !.pc = "idle"])
  /\ UNCHANGED disk

Next ==
  \E h \in Handles :
    \/ StackReload(h) \/ Resume(h)
    \/ ReloadRead(h) \/ ReloadOnce(h) \/ ReloadReread(h)
    \/ TryAddLock(h) \/ TryAddUptodate(h) \/ TryAddWrite(h) \/ TryAddRename(h)
    \/ TryAddWriteList(h)
    \/ TryAddCommit(h) \/ TryAddUnlinkTable(h) \/ TryAddUnlinkTemp(h) \/ TryAddExit(h)
    \/ StackCompactAll(h) \/ StackAutoCompact(h)
    \/ CompactLock(h) \/ CompactUptodate(h) \/ CompactSubLock(h) \/ CompactUnlock(h)
    \/ CompactWrite(h) \/ CompactRelock(h) \/ CompactRename(h) \/ CompactWriteList(h)
    \/ CompactCommit(h) \/ CompactUnlinkTable(h) \/ CompactDelete(h) \/ CompactExitUnlink(h) \/ CompactExit(h)
    \/ CompactEarlyExit(h)
    \/ Crash(h) \/ StackDestroy(h)

Spec == Init /\ [][Next]_vars

\* ------------------------------------------------------- table contents
\* The records of the tables of one handle's stack.  A table is [min, max,
\* recs]: recs are its ref records in ascending key order; a record is
\* [key, value, update_index], value <<>> being the NULL value of a deletion.
Keys == 1..NumKeys
Values == 1..NumValues
RefValues == {<<>>} \cup {<<v>> : v \in Values}

ref_record_is_deletion(rec) == rec.value = <<>>

\* a priority queue that prefers the older table among equal keys
pq_less_oldest_first(a, b) ==
  IF a.rec.key = b.rec.key THEN a.index < b.index ELSE a.rec.key < b.rec.key

\* pq.c: entries [rec, index]; equal keys order by descending table index
pq_less(a, b) ==
  IF a.rec.key = b.rec.key THEN a.index > b.index ELSE a.rec.key < b.rec.key

\* heap[i] and heap[j] of the C array (0-based) exchanged
pq_swap(heap, i, j) == [heap EXCEPT ![i + 1] = heap[j + 1], ![j + 1] = heap[i + 1]]

\* an add that leaves the new entry at the end of the array
pq_add_loop_none(heap, i) == heap

RECURSIVE pq_add_loop(_, _)
pq_add_loop(heap, i) ==
  IF i > 0
  THEN LET j == (i - 1) \div 2
       IN  IF pq_less(heap[j + 1], heap[i + 1])
           THEN heap
           ELSE pq_add_loop(pq_swap(heap, j, i), j)
  ELSE heap

merged_iter_pqueue_add(heap, e) == pq_add_loop(Append(heap, e), Len(heap))

RECURSIVE pq_remove_loop(_, _)
pq_remove_loop(heap, i) ==
  IF i < Len(heap)
  THEN LET j == 2 * i + 1
           k == 2 * i + 2
           minj == IF j < Len(heap) /\ pq_less(heap[j + 1], heap[i + 1]) THEN j ELSE i
           min == IF k < Len(heap) /\ pq_less(heap[k + 1], heap[minj + 1]) THEN k ELSE minj
       IN  IF min = i THEN heap ELSE pq_remove_loop(pq_swap(heap, min, i), min)
  ELSE heap

merged_iter_pqueue_remove(heap) ==
  [e |-> heap[1],
   heap |-> pq_remove_loop(SubSeq([heap EXCEPT ![1] = heap[Len(heap)]], 1, Len(heap) - 1), 0)]

\* merged_iter_pqueue_clear: every record cleared, the heap freed, len = 0
merged_iter_pqueue_clear(heap) == <<>>

\* merged_iter_pqueue_check: the assertion holds for every i in 1..len-1
merged_iter_pqueue_check(heap) ==
  \A i \in 1..(Len(heap) - 1) : pq_less(heap[((i - 1) \div 2) + 1], heap[i + 1])

\* The merging iterator over subtabs: heap is its queue, pos[i + 1] the number
\* of records taken from sub-table i.  The sub-iterator idx yields its next
\* record, if it has one, into the queue.
merged_iter_advance_subiter(subtabs, it, idx) ==
  LET n == it.pos[idx + 1] + 1
  IN  IF n <= Len(subtabs[idx + 1].recs)
      THEN [heap |-> merged_iter_pqueue_add(it.heap,
                        [rec |-> subtabs[idx + 1].recs[n], index |-> idx]),
            pos |-> [it.pos EXCEPT ![idx + 1] = n]]
      ELSE it

RECURSIVE merged_iter_init(_, _, _)
merged_iter_init(subtabs, it, i) ==
  IF i >= Len(subtabs)
  THEN it
  ELSE merged_iter_init(subtabs, merged_iter_advance_subiter(subtabs, it, i), i + 1)

\* merged_table_seek_ref(mt, &it, ""): every sub-iterator at its first record
merged_table_seek_ref(subtabs) ==
  merged_iter_init(subtabs, [heap |-> <<>>, pos |-> [i \in 1..Len(subtabs) |-> 0]], 0)

\* the queued entries of the key just returned are dropped: older tables lose
RECURSIVE merged_iter_skip(_, _, _)
merged_iter_skip(subtabs, it, key) ==
  IF it.heap # <<>> /\ it.heap[1].rec.key = key
  THEN LET r == merged_iter_pqueue_remove(it.heap)
       IN  merged_iter_skip(subtabs,
             merged_iter_advance_subiter(subtabs, [it EXCEPT !.heap = r.heap], r.e.index),
             key)
  ELSE it

\* iterator_next_ref on a queue that is not empty: the record and the iterator after it
iterator_next_ref(subtabs, it) ==
  LET r == merged_iter_pqueue_remove(it.heap)
      advanced == merged_iter_advance_subiter(subtabs, [it EXCEPT !.heap = r.heap], r.e.index)
  IN  [rec |-> r.e.rec, it |-> merged_iter_skip(subtabs, advanced, r.e.rec.key)]

\* a compaction that drops tombstones whatever the range
compact_omits_always(first, rec) == ref_record_is_deletion(rec)

\* stack_write_compact: "if (first == 0 && ref_record_is_deletion(&ref)) continue"
compact_omits(first, rec) == first = 0 /\ ref_record_is_deletion(rec)

RECURSIVE write_compact_loop(_, _, _, _)
write_compact_loop(subtabs, it, first, written) ==
  IF it.heap = <<>>
  THEN written
  ELSE LET n == iterator_next_ref(subtabs, it)
       IN  write_compact_loop(subtabs, n.it, first,
             IF compact_omits(first, n.rec) THEN written ELSE Append(written, n.rec))

\* the table stack_write_compact writes for tabs[first..last] (0-based)
stack_write_compact(tabs, first, last) ==
  LET subtabs == SubSeq(tabs, first + 1, last + 1)
  IN  [min |-> tabs[first + 1].min, max |-> tabs[last + 1].max,
       recs |-> write_compact_loop(subtabs, merged_table_seek_ref(subtabs), first, <<>>)]

\* the readers of the tables of contents
ContentsReaders(tabs) ==
  [i \in 1..Len(tabs) |-> [name |-> format_name(tabs[i].min, tabs[i].max), size |-> Overhead + 1,
                         open |-> TRUE]]

\* the records a write callback adds, in ascending key order: the keys of
\* present, each with its value of val, all at update index u
RECURSIVE callback_records(_, _, _, _)
callback_records(present, val, u, k) ==
  IF k > NumKeys
  THEN <<>>
  ELSE (IF k \in present
        THEN <<[key |-> k, value |-> val[k], update_index |-> u]>>
        ELSE <<>>) \o callback_records(present, val, u, k + 1)

\* stack_add of a table with limits (next, next)
ContentsAdd ==
  /\ Len(contents.tabs) < MaxTables
  /\ \E present \in SUBSET Keys, val \in [Keys -> RefValues] :
       LET next == stack_next_update_index(ContentsReaders(contents.tabs))
           tab == [min |-> next, max |-> next,
                   recs |-> callback_records(present, val, next, 1)]
       IN  /\ next <= MaxIndex
           /\ contents' = [NoContents EXCEPT !.tabs = Append(contents.tabs, tab)]
  /\ UNCHANGED <<disk, st, readers, policy, pq>>

\* a successful stack_compact_range(first, last), first < last
ContentsCompact ==
  /\ \E first, last \in 0..(Len(contents.tabs) - 1) :
       /\ first < last
       /\ contents' = [tabs |-> SubSeq(contents.tabs, 1, first)
                                  \o <<stack_write_compact(contents.tabs, first, last)>>
                                  \o SubSeqFrom(contents.tabs, last + 2),
                       before |-> contents.tabs, first |-> first, last |-> last,
                       compacted |-> TRUE]
  /\ UNCHANGED <<disk, st, readers, policy, pq>>

ContentsNext == ContentsAdd \/ ContentsCompact

SpecContents == Init /\ [][ContentsNext]_vars

\* ---------------------------------------------------------- reader handles
\* stack_reload_once on one handle, with the open/closed state of each
\* struct reader followed; Spec above leaves that state out.
ReaderTableNames == {format_name(i, i) : i \in 1..MaxIndex}

\* the lists of distinct table names a list file can hold
NameLists ==
  {ns \in UNION {[1..n -> ReaderTableNames] : n \in 0..MaxTables} :
     \A i, j \in 1..Len(ns) : ns[i] = ns[j] => i = j}

\* stack_reload_once(st, names) with the table files "present" on disk
ReadersReloadOnce ==
  /\ \E names \in NameLists, present \in SUBSET ReaderTableNames :
       LET files == [n \in present |-> Overhead + 1]
           r == stack_reload_once(readers.merged, names, files)
       IN  readers' = [merged |-> IF r.err = 0 THEN r.tabs
                                  ELSE close_new_tables(readers.merged, r.cur),
                       before |-> readers.merged, names |-> names,
                       files |-> files, err |-> r.err]
  /\ UNCHANGED <<disk, st, contents, policy, pq>>

SpecReaders == Init /\ [][ReadersReloadOnce]_vars

\* ------------------------------------------------------- compaction policy
\* suggest_compaction_segment and fastlog2 on their own: the arguments are
\* every sequence of at most MaxLen sizes in 1..MaxSize and every x in
\* 1..2*MaxSize, and each function is applied to them once
PolicySizes == UNION {[1..n -> 1..MaxSize] : n \in 0..MaxLen}

PolicyInit ==
  /\ list = <<>>
  /\ listIno = {}
  /\ lockFile = NoFile
  /\ tables = NoFiles
  /\ tableLocks = NoFiles
  /\ temps = {}
  /\ leaked = {}
  /\ st = [h \in Handles |-> InitStack]
  /\ contents = NoContents
  /\ readers = NoReaders
  /\ pq = NoPq
  /\ \E sizes \in PolicySizes, x \in 1..(2 * MaxSize) :
       policy = [NoPolicy EXCEPT !.sizes = sizes, !.x = x]

PolicySuggest ==
  /\ policy.call = ""
  /\ policy' = [policy EXCEPT !.call = "suggest_compaction_segment",
                              !.seg = suggest_compaction_segment(policy.sizes)]
  /\ UNCHANGED <<disk, st, contents, readers, pq>>

PolicyFastlog2 ==
  /\ policy.call = ""
  /\ policy' = [policy EXCEPT !.call = "fastlog2", !.l = fastlog2(policy.x)]
  /\ UNCHANGED <<disk, st, contents, readers, pq>>

\* the stack whose i-th table holds policy.sizes[i] bytes of records
PolicyStack ==
  [i \in 1..Len(policy.sizes) |->
     [name |-> format_name(i, i), size |-> policy.sizes[i] + Overhead, open |-> TRUE]]

\* stack_auto_compact on that stack: the range it hands to
\* stack_compact_range, and the list stack_compact_range builds for it
PolicyAutoCompact ==
  /\ policy.call = ""
  /\ LET merged == PolicyStack
         s == stack_auto_compact([Begin(InitStack, "auto_compact") EXCEPT !.merged = merged])
         compact == s.pc = "cr_lock"
     IN  policy' = [policy EXCEPT
                      !.call = "stack_auto_compact",
                      !.compact = compact,
                      !.first = IF compact THEN s.first ELSE 0,
                      !.last = IF compact THEN s.last ELSE 0,
                      !.names = IF compact
                                THEN compact_ref_list(merged, s.first, s.last,
                                       compact_table_name(merged, s.first, s.last))
                                ELSE ReaderNames(merged)]
  /\ UNCHANGED <<disk, st, contents, readers, pq>>

PolicyNext == PolicySuggest \/ PolicyFastlog2 \/ PolicyAutoCompact

SpecPolicy == PolicyInit /\ [][PolicyNext]_vars

\* --------------------------------------------------------- priority queue
\* One queue of pq.c under any sequence of adds and removes.  The entries
\* are pairwise distinct in (key, table index): an entry is added only while
\* no entry of that key and index is queued.  A remove needs a queued entry.
PqEntries ==
  {[rec |-> [key |-> k, value |-> <<>>], index |-> i] : k \in 1..PqKeys, i \in 0..(PqTables - 1)}

PqAdd ==
  /\ \E e \in PqEntries :
       /\ \A i \in 1..Len(pq.heap) : pq.heap[i] # e
       /\ pq' = [heap |-> merged_iter_pqueue_add(pq.heap, e),
                 call |-> "merged_iter_pqueue_add", e |-> e]
  /\ UNCHANGED <<disk, st, contents, readers, policy>>

PqRemove ==
  /\ pq.heap # <<>>
  /\ LET r == merged_iter_pqueue_remove(pq.heap)
     IN  pq' = [heap |-> r.heap, call |-> "merged_iter_pqueue_remove", e |-> r.e]
  /\ UNCHANGED <<disk, st, contents, readers, policy>>

PqClear ==
  /\ pq' = [heap |-> merged_iter_pqueue_clear(pq.heap), call |-> "merged_iter_pqueue_clear",
            e |-> NoPq.e]
  /\ UNCHANGED <<disk, st, contents, readers, policy>>

PqNext == PqAdd \/ PqRemove \/ PqClear

SpecPq == Init /\ [][PqNext]_vars

\* ------------------------------------------------------ reload termination
\* stack_reload on one handle while other processes rewrite the list file
\* and create and delete table files at will.
Reloader == 1

\* the tables the other processes write, and the lists they commit
ReloadTableNames == {format_name(i, i) : i \in 1..ReloadTables}

ReloadLists ==
  {ns \in UNION {[1..n -> ReloadTableNames] : n \in 0..ReloadTables} :
     \A i, j \in 1..Len(ns) : ns[i] = ns[j] => i = j}

\* another process replaces the list file and the set of table files
OthersChangeFiles ==
  /\ \E names \in ReloadLists, present \in SUBSET ReloadTableNames :
       /\ list' = names
       /\ tables' = [n \in present |-> Overhead + 1]
       /\ <<list', tables'>> # <<list, tables>>
       /\ st' = [g \in Handles |-> Observe(g, 0, names # list, FALSE, <<>>)]
  /\ UNCHANGED <<listIno, lockFile, tableLocks, temps, leaked, contents, readers, policy, pq>>

\* the loop head leaves the loop because the deadline has passed
ReloadDeadline(h) == ReloadRead(h) /\ st'[h].pc # "rl_once"

ReloadNext ==
  \/ StackReload(Reloader) \/ Resume(Reloader)
  \/ ReloadRead(Reloader) \/ ReloadOnce(Reloader) \/ ReloadReread(Reloader)
  \/ OthersChangeFiles

\* the reloading process keeps running, and the clock moves on: a loop that
\* reaches its head again and again finds the deadline passed at some point
ReloadFairness ==
  /\ WF_vars(ReloadRead(Reloader))
  /\ WF_vars(ReloadOnce(Reloader))
  /\ WF_vars(ReloadReread(Reloader))
  /\ SF_vars(ReloadDeadline(Reloader))

SpecReload == Init /\ [][ReloadNext]_vars /\ ReloadFairness

\* ================================================================ properties
NoneDead == \A h \in Handles : st[h].pc # "dead"

\* C1: when stack_uptodate reports that the list file differs from the
\* handle's loaded tables, stack_try_add returns LOCK_ERROR, publishes no
\* table and leaves the list file as it was.
C1_StaleAddRejected ==
  \A h \in Handles :
    st[h].stale =>
      /\ ~st[h].published
      /\ ~st[h].committed
      /\ (st[h].pc \in {"ta_exit_temp", "ta_exit"} => st[h].err = LOCK_ERROR)

\* C2: at most one handle holds the list lock at any moment, and a handle
\* that is about to rename the lock file over the list file finds at that
\* path the lock file it created itself.
C2_ListLockExclusive ==
  /\ Cardinality({h \in Handles : st[h].have_lock}) <= 1
  /\ \A h \in Handles :
       st[h].pc \in {"ta_commit", "cr_commit"} /\ lockFile.exists => lockFile.owner = h

\* C3: the step by which a successful add replaces the list file makes the
\* new list the previous on-disk list followed by the one new table name.
C3_AddAppends ==
  [][\A h \in Handles :
       (st[h].pc = "ta_commit" /\ st'[h].pc = "rl_read")
         => list' = Append(list, format_name(st[h].wr.min, st[h].wr.max))]_vars

\* C4: when an add by another handle commits while a compaction has released
\* the list lock to write its table, the list the compaction commits still
\* names the appended table, after the compacted one, and the table's file
\* stays on disk.
C4_CompactionKeepsAppended ==
  [][\A h \in Handles :
       (st[h].pc = "cr_commit" /\ st'[h].pc = "cr_delete")
         => \A t \in SeqRange(st[h].appended) :
              /\ t \in DOMAIN tables'
              /\ \E i, j \in 1..Len(list') :
                   /\ i < j
                   /\ list'[i] = compact_table_name(st[h].merged, st[h].first, st[h].last)
                   /\ list'[j] = t]_vars

\* C5: with no handle's process ended, the names in the list file are
\* pairwise distinct and each names a table file that exists on disk.
C5_ListNamesDistinctExisting ==
  NoneDead =>
    /\ \A i, j \in 1..Len(list) : list[i] = list[j] => i = j
    /\ \A i \in 1..Len(list) : list[i] \in DOMAIN tables

\* the call that returned on s invoked stack_compact_range
CompactRangeCalled(s) ==
  \/ s.op = "compact_all"
  \/ /\ s.op = "auto_compact"
     /\ \/ s.committed
        \/ segment_size(suggest_compaction_segment(
                          stack_table_sizes_for_compaction(s.merged))) > 0

\* C6: after any add, compact_range or reload that returns success, and with
\* no change to the list file by another handle since the handle last read
\* it, the handle's readers name exactly the tables of the list file, in the
\* same order.
C6_AnySuccessAgrees ==
  \A h \in Handles :
    ( /\ st[h].pc = "returned"
      /\ st[h].ret = 0
      /\ st[h].quiet
      /\ (st[h].op \in {"add", "reload"} \/ CompactRangeCalled(st[h])) )
    => ReaderNames(st[h].merged) = list

\* C7: when two handles call add at the same time and one finds the list
\* lock held by the other, exactly one of the two calls returns LOCK_ERROR,
\* the call that lost the lock publishes no table, and at most one of them
\* replaces the list file.
C7_ExactlyOneLockError ==
  \A h, g \in Handles :
    ( /\ h # g
      /\ st[h].pc = "returned" /\ st[h].op = "add" /\ g \in st[h].lostTo
      /\ st[g].pc = "returned" /\ st[g].op = "add" )
    => /\ st[h].ret = LOCK_ERROR
       /\ st[g].ret # LOCK_ERROR
       /\ ~st[h].published
       /\ ~(st[h].committed /\ st[g].committed)

\* a handle opened on the directory now loads every table of the list file
FreshHandleLoads == stack_reload_once(<<>>, list, tables).err = 0

\* C8: once a process has been killed inside add or compact_range, every
\* table named in the list file exists on disk and a fresh handle loads.
C8_CrashLeavesLoadable ==
  (\E h \in Handles : st[h].crashed) => FreshHandleLoads

\* C9: adjacent tables of the list file, and of every handle's loaded stack,
\* have strictly increasing update-index ranges: T_i.max < T_{i+1}.min.
C9_UpdateIndexMonotone ==
  /\ \A i \in 1..(Len(list) - 1) : list[i][2] < list[i + 1][1]
  /\ \A h \in Handles : \A i \in 1..(Len(st[h].merged) - 1) :
       reader_max_update_index(st[h].merged[i])
         < reader_min_update_index(st[h].merged[i + 1])

\* a compaction of the two topmost tables that kept the table below them
C9_Witness ==
  /\ list = <<format_name(1, 1), format_name(2, 3)>>
  /\ \E h \in Handles :
       /\ st[h].pc = "returned" /\ st[h].op = "add" /\ st[h].ret = 0
       /\ ReaderNames(st[h].merged) = list

\* C10: when the callback of an add leaves the writer with a minimum update
\* index below the next update index of the handle's loaded tables,
\* stack_try_add goes to its exit with API_ERROR without a change to the
\* table files or the list file, and the exit leaves no lock file and no temp
\* file, returns API_ERROR and has neither published a table nor replaced
\* the list file.
C10_ApiErrorCleansUp ==
  [][\A h \in Handles :
       LET s == st[h]
           t == st'[h]
           next_before == IF s.merged = <<>> THEN 1
                          ELSE s.merged[Len(s.merged)].name[2] + 1
       IN  /\ ( /\ s.pc = "ta_rename" /\ t.pc \notin {"ta_rename", "dead"}
                /\ s.wr.min < next_before )
                => /\ t.pc = "ta_exit_temp"
                   /\ t.err = API_ERROR
                   /\ tables' = tables
                   /\ list' = list
           /\ ( /\ s.pc = "ta_exit_temp" /\ s.err = API_ERROR
                /\ t.pc \notin {"ta_exit_temp", "dead"} )
                => /\ t.pc = "ta_exit"
                   /\ t.err = API_ERROR
                   /\ h \notin temps'
                   /\ h \notin leaked'
                   /\ tables' = tables
                   /\ list' = list
           /\ ( /\ s.pc = "ta_exit" /\ s.err = API_ERROR
                /\ t.pc \notin {"ta_exit", "dead"} )
                => /\ t.pc = "returned"
                   /\ t.ret = API_ERROR
                   /\ ~t.published
                   /\ ~t.committed
                   /\ ~lockFile'.exists
                   /\ h \notin temps'
                   /\ h \notin leaked'
                   /\ tables' = tables
                   /\ list' = list]_vars

C10_Witness ==
  \E h \in Handles :
    st[h].pc = "returned" /\ st[h].op = "add" /\ st[h].ret = API_ERROR

\* every record of every table
AllRecords(tabs) == UNION {SeqRange(tabs[i].recs) : i \in 1..Len(tabs)}

\* last writer wins per key by update_index, deleted keys absent
LastWriterWins(tabs) ==
  {r \in AllRecords(tabs) :
     /\ ~ref_record_is_deletion(r)
     /\ \A q \in AllRecords(tabs) : q.key = r.key => q.update_index <= r.update_index}

RECURSIVE merged_scan(_, _, _)
merged_scan(subtabs, it, seen) ==
  IF it.heap = <<>>
  THEN seen
  ELSE LET n == iterator_next_ref(subtabs, it)
       IN  merged_scan(subtabs, n.it, Append(seen, n.rec))

\* what a full scan of the stack's merged table returns, deletions left out
ReadView(tabs) ==
  {r \in SeqRange(merged_scan(tabs, merged_table_seek_ref(tabs), <<>>)) :
     ~ref_record_is_deletion(r)}

\* C11: after a compaction of the whole stack, a full scan of the merged
\* table returns the same records as before it, and they are the last
\* written value of every key that is not deleted.
C11_CompactAllKeepsView ==
  ( /\ contents.compacted
    /\ contents.first = 0
    /\ contents.last = Len(contents.before) - 1 )
  => /\ ReadView(contents.tabs) = ReadView(contents.before)
     /\ ReadView(contents.tabs) = LastWriterWins(contents.before)

C11_Witness ==
  /\ contents.compacted
  /\ contents.first = 0
  /\ Len(contents.before) = MaxTables
  /\ contents.last = MaxTables - 1
  /\ \E r, q \in AllRecords(contents.before) :
       /\ r.key = q.key /\ r.update_index < q.update_index
       /\ ~ref_record_is_deletion(r) /\ ~ref_record_is_deletion(q)
  /\ \E r, q \in AllRecords(contents.before) :
       /\ r.key = q.key /\ r.update_index < q.update_index
       /\ ~ref_record_is_deletion(r) /\ ref_record_is_deletion(q)

\* C12: the table a compaction of [first..last] writes holds no tombstone
\* when first = 0; when first > 0 it holds every record the merge of the
\* range yields, tombstones included, so the view of the stack is unchanged.
C12_TombstonesOmittedIffBottom ==
  contents.compacted =>
    LET range  == SubSeq(contents.before, contents.first + 1, contents.last + 1)
        merged == merged_scan(range, merged_table_seek_ref(range), <<>>)
        new    == contents.tabs[contents.first + 1].recs
    IN  /\ contents.first = 0 =>
             /\ \A i \in 1..Len(new) : ~ref_record_is_deletion(new[i])
             /\ SeqRange(new) = {r \in SeqRange(merged) : ~ref_record_is_deletion(r)}
        /\ contents.first > 0 =>
             /\ new = merged
             /\ LastWriterWins(contents.tabs) = LastWriterWins(contents.before)

C12_Witness ==
  /\ contents.compacted
  /\ contents.first > 0
  /\ \E i \in 1..Len(contents.tabs[contents.first + 1].recs) :
       LET t == contents.tabs[contents.first + 1].recs[i]
       IN  /\ ref_record_is_deletion(t)
           /\ \E r \in SeqRange(contents.tabs[1].recs) :
                r.key = t.key /\ ~ref_record_is_deletion(r)

\* C13: a compact_range that finds the list lock present, or finds its loaded
\* tables out of date, returns a positive value and changes neither the list
\* file nor any table file; with first >= last it returns 0 and changes no
\* file at all.
C13_TransientLeavesFiles ==
  [][\A h \in Handles :
       /\ (st[h].pc = "cr_early" /\ st'[h].pc # "cr_early" /\ ~st'[h].crashed)
            => /\ st'[h].pc = "returned"
               /\ st'[h].ret > 0
               /\ list' = list
               /\ tables' = tables
       /\ ( /\ st[h].pc = "idle"
            /\ st'[h].op = "compact_all"
            /\ Len(st[h].merged) <= 1 )
            => /\ st'[h].pc = "returned"
               /\ st'[h].ret = 0
               /\ disk' = disk]_vars

\* C14: when stack_reload gives up because it has tried more than three
\* times and the deadline has passed, what it returns is an error: it never
\* returns success without a stack_reload_once that succeeded.
C14_DeadlineReturnsError ==
  [][\A h \in Handles :
       (st[h].pc = "rl_read" /\ st'[h].pc \notin {"rl_read", "rl_once", "dead"})
         => IF st'[h].pc = "returned" THEN st'[h].ret < 0 ELSE st'[h].err < 0]_vars

C16_OnlyCreatorUnlinksLock ==
  [][\A h \in Handles :
       /\ ( /\ ~st[h].have_lock
            /\ \/ st[h].pc = "ta_exit" /\ st[h].err = LOCK_ERROR
               \/ st[h].pc = "cr_early" /\ st[h].err = 1
            /\ st'[h].pc # st[h].pc )
            => lockFile' = lockFile
       /\ ( /\ st'[h].pc # st[h].pc
            /\ lockFile.exists
            /\ ~(lockFile'.exists /\ lockFile'.owner = lockFile.owner) )
            => lockFile.owner = h]_vars

\* C17: after a stack_reload_once attempt that failed part-way through the
\* names, the handle's merged table names the same readers as before and
\* every reader of it that was open is still open.
C17_FailedReloadKeepsReaders ==
  readers.err # 0 =>
    /\ ReaderNames(readers.merged) = ReaderNames(readers.before)
    /\ \A i \in 1..Len(readers.before) :
         readers.before[i].open => readers.merged[i].open

\* the value stack_reload hands back on the step from s to t
ReloadResult(t) == IF t.pc = "returned" THEN t.ret ELSE t.err

\* the names from the first one that stack_reload_once calls open() for
RECURSIVE names_to_open(_, _)
names_to_open(names, cur) ==
  IF names = <<>> THEN <<>>
  ELSE IF \E i \in 1..Len(cur) : cur[i].name = Head(names)
       THEN names_to_open(Tail(names), cur)
       ELSE names

C19_CompactExitCleansUp ==
  [][\A h \in Handles :
       (st[h].pc \in {"cr_exit", "cr_early"} /\ st'[h].pc \notin {"cr_exit", "cr_early", "dead"})
         => /\ \A n \in DOMAIN tableLocks' : tableLocks'[n] # h
            /\ lockFile'.exists => lockFile'.owner # h
            /\ h \notin temps'
            /\ leaked' = leaked]_vars

\* the per-table locks handle h took in the lock loop of a compaction that
\* is still running
HeldSubLocks(h) ==
  IF st[h].pc \in {"cr_sublock", "cr_unlock", "cr_write", "cr_relock", "cr_rename",
                   "cr_listwrite", "cr_commit", "cr_unlink", "cr_delete"}
  THEN SeqRange(st[h].subLocks)
  ELSE {}

\* C20: no two compactions hold the per-table lock of the same table at the
\* same time, and no step of a handle removes or replaces a per-table lock
\* file that another handle created.
C20_SubtableLocksExclusive ==
  [][/\ \A h, g \in Handles : h # g => HeldSubLocks(h) \cap HeldSubLocks(g) = {}
     /\ \A h \in Handles :
          (st'[h].pc # st[h].pc \/ st'[h].p # st[h].p \/ st'[h].subLocks # st[h].subLocks)
            => \A n \in DOMAIN tableLocks :
                 tableLocks[n] # h
                   => n \in DOMAIN tableLocks' /\ tableLocks'[n] = tableLocks[n]]_vars

\* C21: when a pass of the per-table lock loop of stack_compact_range finds
\* the lock file of its table already there (EEXIST), the error the call is
\* left with is positive; when it creates the lock the error is 0.
C21_SubtableLockExistsIsTransient ==
  [][\A h \in Handles :
       LET s == st[h]
           t == st'[h]
       IN  (s.pc = "cr_sublock" /\ Len(t.subLocks) = Len(s.subLocks) + 1)
             => IF s.merged[s.first + Len(s.subLocks) + 1].name \in DOMAIN tableLocks
                THEN t.pc = "cr_exit" /\ t.err > 0
                ELSE t.pc \in {"cr_sublock", "cr_unlock"} /\ t.err = 0]_vars

\* handle h is between releasing the list lock and taking it again: it holds
\* its per-table locks and writes the compacted table
InWriteWindow(h) == st[h].pc \in {"cr_write", "cr_relock"}

\* C22: while a compaction is in its write window it does not hold the list
\* lock; an add another handle begins then gets the list lock and, when its
\* view is up to date, goes on to its write callback (which sets limits or
\* fails by itself) instead of being turned away; the compaction
\* leaves that handle's lock file alone, and the add's rename of its lock
\* file over the list file succeeds.
C22_AppendDuringCompaction ==
  [][\A h, g \in Handles :
       (h # g /\ InWriteWindow(h))
         => /\ lockFile.exists => lockFile.owner # h
            /\ (st[g].pc = "idle" /\ st'[g].op = "add" /\ st'[g].pc # "idle")
                 => st'[g].pc = "ta_uptodate" /\ lockFile'.exists /\ lockFile'.owner = g
            /\ (st[g].pc = "ta_uptodate" /\ st'[g].pc \notin {"ta_uptodate", "dead"}
                  /\ stack_uptodate(st[g].merged) = 0)
                 => st'[g].pc = "ta_mkstemp" /\ st'[g].next # 0 /\ ~st'[g].stale
            /\ (st[g].pc = "ta_mkstemp" /\ st'[g].pc \notin {"ta_mkstemp", "dead"})
                 => /\ g \in temps'
                    /\ st'[g].pc \in {"ta_rename", "ta_exit_temp"}
            /\ (st'[h].pc # st[h].pc /\ lockFile.exists /\ lockFile.owner = g)
                 => lockFile' = lockFile
            /\ (st[g].pc = "ta_commit" /\ st'[g].pc \notin {"ta_commit", "dead"}
                  /\ lockFile.exists /\ lockFile.owner = g)
                 => /\ st'[g].pc = "rl_read"
                    /\ list' = Append(ReaderNames(st[g].merged),
                                      format_name(st[g].wr.min, st[g].wr.max))]_vars

C22_Witness ==
  \E h, g \in Handles :
    /\ h # g
    /\ InWriteWindow(h)
    /\ SeqRange(st[h].subLocks) \subseteq DOMAIN tableLocks
    /\ Len(st[h].subLocks) = 2
    /\ st[g].op = "add" /\ st[g].pc = "rl_read" /\ st[g].committed /\ ~st[g].stale
    /\ Len(list) = 3
    /\ list[3] = format_name(st[g].wr.min, st[g].wr.max)
    /\ SubSeq(list, 1, 2) = ReaderNames(st[h].merged)

\* floor(log2(x)) for x >= 1
FloorLog2(x) == CHOOSE k \in 0..63 : 2^k <= x /\ x < 2^(k + 1)

\* s_a + .. + s_(b-1), with s_j = sizes[j + 1]
RECURSIVE SumSizes(_, _, _)
SumSizes(sizes, a, b) == IF a >= b THEN 0 ELSE sizes[a + 1] + SumSizes(sizes, a + 1, b)

\* [a, b) is a maximal run of sizes in one bucket
IsRun(sizes, a, b) ==
  /\ 0 <= a /\ a < b /\ b <= Len(sizes)
  /\ \A j \in a..(b - 1) : FloorLog2(sizes[j + 1]) = FloorLog2(sizes[a + 1])
  /\ a = 0 \/ FloorLog2(sizes[a]) # FloorLog2(sizes[a + 1])
  /\ b = Len(sizes) \/ FloorLog2(sizes[b + 1]) # FloorLog2(sizes[a + 1])

\* the runs of length >= 2
LongRuns(sizes) ==
  {r \in (0..Len(sizes)) \X (0..Len(sizes)) : IsRun(sizes, r[1], r[2]) /\ r[2] - r[1] >= 2}

\* the run of the smallest bucket, the first one on ties
ChosenRun(sizes) ==
  CHOOSE r \in LongRuns(sizes) :
    \A q \in LongRuns(sizes) :
      \/ FloorLog2(sizes[r[1] + 1]) < FloorLog2(sizes[q[1] + 1])
      \/ FloorLog2(sizes[r[1] + 1]) = FloorLog2(sizes[q[1] + 1]) /\ r[1] <= q[1]

\* s_(k-1) is absorbed into [k, b)
Absorbs(sizes, k, b) == FloorLog2(SumSizes(sizes, k, b)) >= FloorLog2(sizes[k])

\* where absorbing to the left of [a, b) stops
AbsorbedStart(sizes, a, b) ==
  CHOOSE s \in 0..a :
    /\ \A k \in (s + 1)..a : Absorbs(sizes, k, b)
    /\ s = 0 \/ ~Absorbs(sizes, s, b)

\* C23: suggest_compaction_segment returns the run of length >= 2 with the
\* smallest bucket (the first on ties), extended to the left while the
\* bucket of its bytes is at least the bucket of the size before it, and an
\* empty range when there is no such run; always 0 <= start <= end <= n and
\* bytes is the sum of the sizes in the range.
C23_SuggestedSegment ==
  policy.call = "suggest_compaction_segment" =>
    LET sizes == policy.sizes
        seg == policy.seg
    IN  /\ 0 <= seg.start /\ seg.start <= seg.end /\ seg.end <= Len(sizes)
        /\ seg.bytes = SumSizes(sizes, seg.start, seg.end)
        /\ IF LongRuns(sizes) = {}
           THEN seg.start = seg.end
           ELSE LET r == ChosenRun(sizes)
                IN  /\ seg.end = r[2]
                    /\ seg.start = AbsorbedStart(sizes, r[1], r[2])

C23_Witness ==
  /\ policy.call = "suggest_compaction_segment"
  /\ policy.sizes = <<4, 2, 1, 1>>
  /\ policy.seg.start = 0
  /\ policy.seg.end = 4
  /\ policy.seg.bytes = 8

\* C24: the step on which a compaction attempt returns adds one to
\* stats.failures when the value returned is positive, for stack_compact_all
\* and stack_auto_compact alike; every other step of a live handle leaves
\* stats.failures as it is.
C24_FailuresCountTransient ==
  [][\A h \in Handles :
       st'[h].pc # "dead"
         => st'[h].stats.failures =
              IF /\ st[h].pc \in {"cr_exit", "cr_early"}
                 /\ st'[h].pc = "returned"
                 /\ st'[h].ret > 0
              THEN st[h].stats.failures + 1
              ELSE st[h].stats.failures]_vars

\* C25: every stack_reload that is running comes to an end, whatever other
\* processes do to the list file and the table files meanwhile.
C25_ReloadTerminates ==
  (st[Reloader].pc \in {"rl_read", "rl_once", "rl_reread"})
    ~> (st[Reloader].pc \notin {"rl_read", "rl_once", "rl_reread"})

C25_Witness ==
  /\ st[Reloader].op = "reload"
  /\ st[Reloader].pc = "rl_read"
  /\ st[Reloader].tries = DeadlineTries + 1

\* C26: the bucket function returns floor(log2(x)) + 1 for every size
\* x >= 1, so that fastlog2(1) = 1, fastlog2(2) = 2, fastlog2(3) = 2 and
\* fastlog2(4) = 3.
C26_BucketIsFloorLogPlusOne ==
  policy.call = "fastlog2" => policy.l = FloorLog2(policy.x) + 1

\* all n >= 2 sizes are in one bucket
OneBucket(sizes) ==
  /\ Len(sizes) >= 2
  /\ \A i, j \in 1..Len(sizes) : FloorLog2(sizes[i]) = FloorLog2(sizes[j])

\* C27: when all n >= 2 tables are in the same size bucket,
\* suggest_compaction_segment returns [0, n) with the sum of all sizes, and
\* stack_auto_compact compacts tables 0..n-1: the list it leads to holds one
\* table, which spans the update indices of the first through the last.
C27_OneBucketCompactsAll ==
  OneBucket(policy.sizes) =>
    /\ policy.call = "suggest_compaction_segment" =>
         /\ policy.seg.start = 0
         /\ policy.seg.end = Len(policy.sizes)
         /\ policy.seg.bytes = SumSizes(policy.sizes, 0, Len(policy.sizes))
    /\ policy.call = "stack_auto_compact" =>
         /\ policy.compact
         /\ policy.first = 0
         /\ policy.last = Len(policy.sizes) - 1
         /\ policy.names = <<format_name(1, Len(policy.sizes))>>

C27_Witness ==
  /\ policy.call = "stack_auto_compact"
  /\ policy.sizes = <<4, 5, 5, 4>>
  /\ policy.compact
  /\ policy.names = <<format_name(1, 4)>>

\* a comes before b: the smaller key, or the same key from the later table
ComesBefore(a, b) ==
  \/ a.rec.key < b.rec.key
  \/ a.rec.key = b.rec.key /\ a.index > b.index

\* C28: after any sequence of adds, removes and clears, the entries added
\* being pairwise distinct in (key, table index), every parent of the heap is pq_less than its
\* children, so the top entry comes before every other queued entry (smallest
\* key, largest table index among equal keys), and the entry a remove returned
\* comes before every entry still queued.
C28_HeapOrder ==
  /\ merged_iter_pqueue_check(pq.heap)
  /\ \A i \in 2..Len(pq.heap) : ComesBefore(pq.heap[1], pq.heap[i])
  /\ pq.call = "merged_iter_pqueue_remove" =>
       \A i \in 1..Len(pq.heap) : ComesBefore(pq.e, pq.heap[i])

C28_Witness ==
  /\ pq.call = "merged_iter_pqueue_remove"
  /\ Len(pq.heap) >= 5
  /\ pq.e.rec.key = pq.heap[1].rec.key
  /\ pq.heap[1].rec.key = pq.heap[3].rec.key
  /\ pq.heap[2].rec.key > pq.heap[3].rec.key

====
